---- MODULE Spec2Model ----
(***************************************************************************)
(* Dragon Dash dashboard (src/app.py): the three datasets held in          *)
(* st.session_state, the st.cache_data generators that fill them, the      *)
(* widgets, and the script pass that filters, aggregates and renders.      *)
(*                                                                         *)
(* Money is an integer number of cents (the generators round to 2          *)
(* decimals).  A str is a tuple of one-character strings.  A DataFrame is  *)
(* a sequence of row records in index order.  A date is a day number, a    *)
(* datetime a pair <<day, seconds>>.                                       *)
(***************************************************************************)
EXTENDS Integers, Sequences, FiniteSets, TLC

\* ------------------------------------------------------------------ bounds
NumClients == 2       \* num_clients (20 in the source)
NumDays == 2          \* num_days (30 in the source)
NumPayouts == 2       \* range(15) in the source
Today == 20           \* day number of datetime.now()
NowSeconds == 3600    \* time of day of datetime.now()

\* ------------------------------------------------------------------ strings
UpperToLower ==
    [c \in {"A", "E", "H", "J", "L", "M", "R", "S"} |->
        CASE c = "A" -> "a" [] c = "E" -> "e" [] c = "H" -> "h" [] c = "J" -> "j"
          [] c = "L" -> "l" [] c = "M" -> "m" [] c = "R" -> "r" [] c = "S" -> "s"]

\* str.lower() on one character
LowerChar(c) == IF c \in DOMAIN UpperToLower THEN UpperToLower[c] ELSE c

\* str.lower()
lower(s) == [i \in 1..Len(s) |-> LowerChar(s[i])]

\* re with IGNORECASE on one pattern character: "." matches any character
RegexCharMatch(p, c) == p = "." \/ LowerChar(p) = LowerChar(c)

\* Series.str.contains(pat, case=False, na=False): pat is a regular
\* expression (regex=True is the default), searched anywhere in the value
str_contains(s, pat) ==
    \E i \in 0..(Len(s) - Len(pat)) :
        \A j \in 1..Len(pat) : RegexCharMatch(pat[j], s[i + j])

\* plain case-insensitive substring containment
Substring(s, term) ==
    \E i \in 0..(Len(s) - Len(term)) :
        \A j \in 1..Len(term) : LowerChar(term[j]) = LowerChar(s[i + j])

\* ------------------------------------------------------------------ numbers
Max(a, b) == IF a >= b THEN a ELSE b

RECURSIVE SumSeq(_)
SumSeq(s) == IF s = <<>> THEN 0 ELSE s[1] + SumSeq(Tail(s))

\* DataFrame[col].sum()
ColSum(df, col) == SumSeq([i \in 1..Len(df) |-> df[i][col]])

\* DataFrame[col].max()
ColMax(df, col) ==
    CHOOSE m \in {df[i][col] : i \in 1..Len(df)} :
        \A i \in 1..Len(df) : df[i][col] <= m

\* n / d rounded to the nearest unit, as the ",.2f" and ".1f" formats do
RoundDiv(n, d) == (2 * n + d) \div (2 * d)

\* round(x, 2): amounts are kept to the cent
CentsPerDollar == 100

\* int() of a non-negative amount of cents: whole dollars, fraction dropped
IntDollars(cents) == cents \div CentsPerDollar

\* f"${x:,.2f}"
FormatMoney(x) == [str |-> TRUE, cents |-> x]
RawMoney(x) == [str |-> FALSE, cents |-> x]

\* float(x.replace('$', '').replace(',', '')) if isinstance(x, str) else x
AmountValue(a) == a.cents

\* ------------------------------------------------------------------ time
\* datetime.now()
now == <<Today, NowSeconds>>

\* dt - timedelta(days=k)
MinusDays(dt, k) == <<dt[1] - k, dt[2]>>

\* dt.strftime("%Y-%m-%d"): the day, the time of day dropped
strftime_date(dt) == dt[1]

\* pd.to_datetime of a "%Y-%m-%d" string or of a date: midnight of that day
to_datetime(d) == <<d, 0>>

\* a comparison that leaves the bound itself out
TsLt(a, b) == a[1] < b[1] \/ (a[1] = b[1] /\ a[2] < b[2])

\* Timestamp comparison a <= b
TsLeq(a, b) == a[1] < b[1] \/ (a[1] = b[1] /\ a[2] <= b[2])

\* ------------------------------------------------------------------ samples of the random draws
James == <<"J", "a", "m", "e", "s">>
Sarah == <<"S", "a", "r", "a", "h">>
Lee == <<"L", "e", "e">>
aol_com == <<"a", "o", "l", ".", "c", "o", "m">>

\* One client's draws (lines 84-99, 104): names, the four channel amounts,
\* max_balance, the uniform(-200, 500) term, verified, payout_status.
ClientDraw(fn, ca, z, mb, noise, v, ps) ==
    [first_name |-> fn, last_name |-> Lee, cash_app |-> ca, zelle |-> z,
     paypal |-> 0, bank_transfer |-> 0, max_balance |-> mb, noise |-> noise,
     verified |-> v, payout_status |-> ps, number |-> <<"7">>, domain |-> aol_com]

ClientDrawSamples ==
    { ClientDraw(James, 35000, 0, 50000, 50, TRUE, "Confirmed"),
      ClientDraw(Sarah, 60000, 0, 50000, 50, FALSE, "Pending"),
      ClientDraw(James, 0, 40000, 50000, 0, FALSE, "Processing"),
      ClientDraw(Sarah, 35000, 0, 50000, 0, TRUE, "Pending") }

\* One day's draws (lines 130-133, 146)
LogDraw(ca, z, pp, b, t) ==
    [cash_app_daily |-> ca, zelle_daily |-> z, paypal_daily |-> pp,
     bank_daily |-> b, transactions |-> t]

LogDrawSamples ==
    { LogDraw(20000, 15000, 30000, 10000, 5),
      LogDraw(150000, 120000, 200000, 80000, 25),
      LogDraw(50050, 15000, 30000, 10000, 9) }

\* One payout's draws (lines 157-160, 168)
PayoutDraw(id, a, m, s) ==
    [id |-> id, amount |-> a, method |-> m, status |-> s, client |-> 1000]

PayoutDrawSamples ==
    { PayoutDraw(10000, 5000, "Cash App", "Completed"),
      PayoutDraw(10000, 200000, "Zelle", "Processing"),
      PayoutDraw(99999, 12345, "PayPal", "Failed"),
      PayoutDraw(54321, 12345, "Bank Transfer", "Completed") }

\* Which part of the input space a behaviour explores: the draws of one
\* dataset (and the widgets over it) vary, or, for "session", the ledger and
\* the journal vary a little and the cache may be cleared.  The registry's
\* draws are fixed by random.seed(42) for the whole behaviour; its two date
\* columns, the only ones that depend on the clock, are left out of the rows.
Focuses == {"clients", "ledger", "payouts", "session"}

ClientDrawSet(f) ==
    CASE f = "clients" -> ClientDrawSamples
      [] OTHER -> { ClientDraw(James, 35000, 0, 50000, 50, TRUE, "Confirmed") }

LogDrawSet(f) ==
    CASE f = "ledger" -> LogDrawSamples
      [] f = "session" -> { LogDraw(20000, 15000, 30000, 10000, 5),
                            LogDraw(150000, 120000, 200000, 80000, 25) }
      [] OTHER -> { LogDraw(20000, 15000, 30000, 10000, 5) }

PayoutDrawSet(f) ==
    CASE f = "payouts" -> PayoutDrawSamples
      [] f = "session" -> { PayoutDraw(10000, 5000, "Cash App", "Completed"),
                            PayoutDraw(99999, 12345, "PayPal", "Failed") }
      [] OTHER -> { PayoutDraw(10000, 5000, "Cash App", "Completed") }

\* ------------------------------------------------------------------ generators
\* generate_demo_clients: row i (from 0) of the registry from its draws
ClientRow(i, d) ==
    LET total_sent == d.cash_app + d.zelle + d.paypal + d.bank_transfer
        current_balance == d.max_balance - total_sent + d.noise
    IN  [Client_ID |-> <<"DD", 1000 + i>>,
         Name |-> d.first_name \o <<" ">> \o d.last_name,
         Email |-> lower(d.first_name) \o <<".">> \o lower(d.last_name)
                     \o d.number \o <<"@">> \o d.domain,
         Verified |-> IF d.verified THEN "Verified" ELSE "Unverified",
         Max_Balance |-> d.max_balance,
         Current_Balance |-> Max(current_balance, 0),
         Cash_App_Sent |-> d.cash_app,
         Zelle_Sent |-> d.zelle,
         PayPal_Sent |-> d.paypal,
         Bank_Transfer |-> d.bank_transfer,
         Total_Sent |-> total_sent,
         Payout_Status |-> d.payout_status]

generate_demo_clients(draws) == [k \in 1..Len(draws) |-> ClientRow(k - 1, draws[k])]

\* an assignment where the source accumulates
AccumulateReset(total_cumulative, daily_total) == daily_total

\* line 136: total_cumulative += daily_total
Accumulate(total_cumulative, daily_total) == total_cumulative + daily_total

\* generate_daily_logs: the loop over day = 0..num_days-1, carrying
\* total_cumulative; logs is the list built so far
RECURSIVE DailyLogsLoop(_, _, _, _)
DailyLogsLoop(draws, day, total_cumulative, logs) ==
    IF day >= Len(draws) THEN logs
    ELSE LET d == draws[day + 1]
             date == strftime_date(MinusDays(now, Len(draws) - day - 1))
             daily_total == d.cash_app_daily + d.zelle_daily + d.paypal_daily + d.bank_daily
             cumulative == Accumulate(total_cumulative, daily_total)
         IN  DailyLogsLoop(draws, day + 1, cumulative,
                 Append(logs, [Date |-> date,
                               Cash_App |-> d.cash_app_daily,
                               Zelle |-> d.zelle_daily,
                               PayPal |-> d.paypal_daily,
                               Bank_Transfer |-> d.bank_daily,
                               Daily_Total |-> daily_total,
                               Cumulative_Total |-> cumulative,
                               Transactions |-> d.transactions]))

generate_daily_logs(draws) == DailyLogsLoop(draws, 0, 0, <<>>)

\* generate_payout_confirmations: no draw looks at the earlier ones
PayoutRow(d) ==
    [Confirmation_ID |-> <<"PAY", d.id>>,
     Amount |-> RawMoney(d.amount),
     Method |-> d.method,
     Status |-> d.status,
     Client_ID |-> <<"DD", d.client>>]

generate_payout_confirmations(draws) == [k \in 1..Len(draws) |-> PayoutRow(draws[k])]

\* ------------------------------------------------------------------ widgets
\* st.sidebar.slider(..., step=100)
SliderStep == 100

\* max_value=int(client_df["Current Balance"].max())
SliderMax(client_df) == IntDollars(ColMax(client_df, "Current_Balance"))

\* the positions the slider offers: min_value + k * step, and max_value
SliderValues(client_df) ==
    {v \in 0..SliderMax(client_df) : v % SliderStep = 0} \cup {SliderMax(client_df)}

\* value=(0, int(client_df["Current Balance"].max()))
DefaultBalanceRange(client_df) == <<0, SliderMax(client_df)>>

\* value=(datetime.now() - timedelta(days=7), datetime.now()), as dates
DefaultDateRange == <<strftime_date(MinusDays(now, 7)), strftime_date(now)>>

\* the widget values of a session that has touched nothing
DefaultWidgets(client_df) ==
    [verification_filter |-> "All",
     payout_filter |-> "All",
     balance_range |-> DefaultBalanceRange(client_df),
     date_range |-> DefaultDateRange,
     search_term |-> <<>>,
     payout_status_filter |-> "All"]

\* the selections a behaviour tries, by focus
VerificationChoices(f) ==
    IF f = "clients" THEN {"All", "Verified", "Unverified"} ELSE {"All"}

PayoutFilterChoices(f) ==
    IF f = "clients" THEN {"All", "Confirmed", "Pending", "Processing"} ELSE {"All"}

BalanceRangeChoices(f, client_df) ==
    IF f = "clients"
    THEN {r \in SliderValues(client_df) \X SliderValues(client_df) : r[1] <= r[2]}
    ELSE {DefaultBalanceRange(client_df)}

SearchTermChoices(f) ==
    IF f = "clients" THEN {<<>>, <<"a", ".", "e">>, <<"S", "A", "R", "A", "H">>} ELSE {<<>>}

\* dates the date_input can be given: before the ledger's window, yesterday, today
DateSamples == {Today - NumDays - 1, Today - 1, Today}

\* date_input returns a tuple of zero, one or two dates, none after max_value
DateRangeChoices(f) ==
    IF f = "ledger"
    THEN {<<>>} \cup {<<d>> : d \in DateSamples}
            \cup {r \in DateSamples \X DateSamples : r[1] <= r[2]}
            \cup {DefaultDateRange}
    ELSE {DefaultDateRange}

PayoutStatusChoices(f) ==
    IF f = "payouts" THEN {"All", "Completed", "Processing", "Failed"} ELSE {"All"}

\* ------------------------------------------------------------------ the script pass
\* lines 218-230: the sidebar filters over a copy of client_df
ApplyFilters(client_df, verification_filter, payout_filter, balance_range) ==
    LET IsVerification(r) == r.Verified = verification_filter
        IsPayout(r) == r.Payout_Status = payout_filter
        InBalance(r) == /\ r.Current_Balance >= balance_range[1] * CentsPerDollar
                        /\ r.Current_Balance <= balance_range[2] * CentsPerDollar
        f0 == client_df
        f1 == IF verification_filter # "All" THEN SelectSeq(f0, IsVerification) ELSE f0
        f2 == IF payout_filter # "All" THEN SelectSeq(f1, IsPayout) ELSE f1
    IN  SelectSeq(f2, InBalance)

\* a metric's delta text: an average, or "N/A"
Average(total, n) ==
    IF n > 0 THEN [kind |-> "avg", value |-> RoundDiv(total, n)]
             ELSE [kind |-> "N/A", value |-> 0]

\* lines 237-275: the five metrics, the client ones over the frame df
KeyMetricsOf(df, client_df, payouts_df) ==
    LET IsVerified(r) == r.Verified = "Verified"
        IsCompleted(r) == r.Status = "Completed"
        total_sent == ColSum(df, "Total_Sent")
        total_balance == ColSum(df, "Current_Balance")
        verified_count == Len(SelectSeq(df, IsVerified))
    IN  [total_clients |-> Len(df),
         total_clients_delta |-> Len(df) - Len(client_df) + Len(df),
         total_sent |-> total_sent,
         total_sent_delta |-> Average(total_sent, Len(df)),
         total_balance |-> total_balance,
         total_balance_delta |-> Average(total_balance, Len(df)),
         verified_count |-> verified_count,
         verification_rate |-> IF Len(df) > 0
                               THEN RoundDiv(verified_count * 1000, Len(df))
                               ELSE 0,
         confirmed_payouts |-> Len(SelectSeq(payouts_df, IsCompleted)),
         payouts_total |-> Len(payouts_df)]

\* the metrics row over the whole registry
KeyMetricsOverRegistry(filtered_df, client_df, payouts_df) ==
    KeyMetricsOf(client_df, client_df, payouts_df)

\* lines 235-275: the key metrics row reads filtered_df as it is at that
\* point of the script: after the sidebar filters, before the search box
KeyMetrics(filtered_df, client_df, payouts_df) == KeyMetricsOf(filtered_df, client_df, payouts_df)

\* lines 285-289: the search box narrows filtered_df
SearchFilter(filtered_df, search_term) ==
    LET Matches(r) == str_contains(r.Name, search_term) \/ str_contains(r.Email, search_term)
    IN  IF search_term # <<>> THEN SelectSeq(filtered_df, Matches) ELSE filtered_df

\* lines 292-299: the money columns of a copy, formatted
DisplayRow(r) ==
    [r EXCEPT !.Max_Balance = FormatMoney(@), !.Current_Balance = FormatMoney(@),
              !.Cash_App_Sent = FormatMoney(@), !.Zelle_Sent = FormatMoney(@),
              !.PayPal_Sent = FormatMoney(@), !.Bank_Transfer = FormatMoney(@),
              !.Total_Sent = FormatMoney(@)]

display_df(filtered_df) == [i \in 1..Len(filtered_df) |-> DisplayRow(filtered_df[i])]

\* line 316: filtered_df.to_csv(index=False): a header line, then the rows
ClientColumns ==
    <<"Client ID", "Name", "Email", "Verified", "Max Balance", "Current Balance",
      "Cash App Sent", "Zelle Sent", "PayPal Sent", "Bank Transfer", "Total Sent",
      "Payout Status">>

CsvLine(r) ==
    <<r.Client_ID, r.Name, r.Email, r.Verified, r.Max_Balance, r.Current_Balance,
      r.Cash_App_Sent, r.Zelle_Sent, r.PayPal_Sent, r.Bank_Transfer, r.Total_Sent,
      r.Payout_Status>>

to_csv(df) == <<ClientColumns>> \o [i \in 1..Len(df) |-> CsvLine(df[i])]

\* lines 330-337: the ledger within the date range, or all of it
LogsFilter(logs_df, date_range) ==
    LET InRange(r) == /\ TsLeq(to_datetime(date_range[1]), to_datetime(r.Date))
                      /\ TsLeq(to_datetime(r.Date), to_datetime(date_range[2]))
    IN  IF Len(date_range) = 2 THEN SelectSeq(logs_df, InRange) ELSE logs_df

\* Series.mean(): NaN over no rows
Mean(df, col) ==
    IF Len(df) = 0 THEN [kind |-> "nan", value |-> 0]
                   ELSE [kind |-> "avg", value |-> RoundDiv(ColSum(df, col), Len(df))]

\* lines 380-397: the ledger's summary statistics and per-channel totals
LedgerSummary(logs_filtered) ==
    [days_tracked |-> Len(logs_filtered),
     avg_daily |-> Mean(logs_filtered, "Daily_Total"),
     total_period |-> ColSum(logs_filtered, "Daily_Total"),
     cash_app |-> ColSum(logs_filtered, "Cash_App"),
     zelle |-> ColSum(logs_filtered, "Zelle"),
     paypal |-> ColSum(logs_filtered, "PayPal"),
     bank_transfer |-> ColSum(logs_filtered, "Bank_Transfer")]

\* a slice that loses the first row kept
FilterPayoutsDropFirst(payouts_df, payout_status_filter) ==
    LET IsStatus(r) == r.Status = payout_status_filter
        kept == SelectSeq(payouts_df, IsStatus)
    IN  IF payout_status_filter = "All" THEN payouts_df
        ELSE IF kept = <<>> THEN kept ELSE Tail(kept)

\* lines 439-441: the payouts of the selected status, from a copy
FilterPayouts(payouts_df, payout_status_filter) ==
    LET IsStatus(r) == r.Status = payout_status_filter
    IN  IF payout_status_filter # "All" THEN SelectSeq(payouts_df, IsStatus) ELSE payouts_df

\* line 444: the Amount column of filtered_payouts, formatted
FormatAmounts(filtered_payouts) ==
    [i \in 1..Len(filtered_payouts) |->
        [filtered_payouts[i] EXCEPT !.Amount = FormatMoney(@.cents)]]

\* lines 463-476: the payout summary, over payouts_df
PayoutSummary(payouts_df) ==
    LET IsCompleted(r) == r.Status = "Completed"
        IsProcessing(r) == r.Status = "Processing"
        IsFailed(r) == r.Status = "Failed"
        completed == SelectSeq(payouts_df, IsCompleted)
    IN  [completed_amount |-> SumSeq([i \in 1..Len(completed) |-> AmountValue(completed[i].Amount)]),
         processing_count |-> Len(SelectSeq(payouts_df, IsProcessing)),
         failed_count |-> Len(SelectSeq(payouts_df, IsFailed))]

\* lines 181-183, 218-493: one run of the script over the session's datasets.
\* button is the st.button that returns True in this run, if any.
Pass(ss, w, button) ==
    LET client_df == ss.client_data
        logs_df == ss.daily_logs
        payouts_df == ss.payout_confirmations
        sidebar_filtered == ApplyFilters(client_df, w.verification_filter,
                                          w.payout_filter, w.balance_range)
        filtered_df == SearchFilter(sidebar_filtered, w.search_term)
        logs_filtered == LogsFilter(logs_df, w.date_range)
        filtered_payouts == FilterPayouts(payouts_df, w.payout_status_filter)
    IN  [client_df |-> client_df,
         logs_df |-> logs_df,
         payouts_df |-> payouts_df,
         metrics |-> KeyMetrics(sidebar_filtered, client_df, payouts_df),
         filtered_df |-> filtered_df,
         display_df |-> display_df(filtered_df),
         csv |-> IF button = "export" THEN to_csv(filtered_df) ELSE <<>>,
         logs_filtered |-> logs_filtered,
         ledger |-> LedgerSummary(logs_filtered),
         filtered_payouts |-> FormatAmounts(filtered_payouts),
         payout_summary |-> PayoutSummary(payouts_df),
         total_clients |-> Len(client_df),
         hidden |-> Len(client_df) - Len(filtered_df),
         report |-> button = "report"]

\* a run that formats the Amount column of the session's own frame
SessionAfterPassInPlace(ss, w) ==
    [ss EXCEPT !.payout_confirmations = FormatAmounts(@)]

\* what a run leaves in st.session_state: it works on copies (lines 219,
\* 292, 373, 439) and on new frames, so the datasets are as they were
SessionAfterPass(ss, w) == ss

\* line 435: st.session_state.payout_confirmations = ...
SetPayouts(ss, payouts) == [ss EXCEPT !.payout_confirmations = payouts]

\* lines 499-501
SetAll(ss, clients, logs, payouts) ==
    [client_data |-> clients, daily_logs |-> logs, payout_confirmations |-> payouts]

\* ------------------------------------------------------------------ state
VARIABLES
    focus,          \* which inputs this behaviour varies
    seeded_draws,   \* the client draws that random.seed(42) fixes
    session_state,  \* st.session_state: client_data, daily_logs, payout_confirmations
    cache,          \* st.cache_data: per generator, the cached return value if any
    widgets,        \* the widgets' current values
    view,           \* what the last run of the script rendered
    replaced        \* the datasets the last refresh generated anew (a cache miss)

vars == <<focus, seeded_draws, session_state, cache, widgets, view, replaced>>

\* no rerun: the run in progress goes on with the datasets it bound
StaleRun(ss, w) == Pass(session_state, w, "none")

\* st.rerun(): the run in progress is dropped and a new one, with no button
\* pressed, renders the session
Rerun(ss, w) == Pass(ss, w, "none")

EmptyCache == [clients |-> {}, logs |-> {}, payouts |-> {}]

\* the generators whose call would miss the cache
Missed(c) == {k \in {"clients", "logs", "payouts"} : c[k] = {}}

\* @st.cache_data over generate_demo_clients(): the cached value, or the
\* value the seeded draws give
cached_generate_demo_clients(c, seed) ==
    IF c.clients # {} THEN c.clients ELSE {generate_demo_clients(seed)}

\* @st.cache_data over generate_daily_logs(): the cached value, or a new one
cached_generate_daily_logs(c, f) ==
    IF c.logs # {} THEN c.logs
    ELSE {generate_daily_logs(d) : d \in [1..NumDays -> LogDrawSet(f)]}

\* @st.cache_data over generate_payout_confirmations()
cached_generate_payout_confirmations(c, f) ==
    IF c.payouts # {} THEN c.payouts
    ELSE {generate_payout_confirmations(d) : d \in [1..NumPayouts -> PayoutDrawSet(f)]}

\* lines 174-183 and the first run: nothing is in st.session_state or in the
\* cache, the three generators run, and the script renders with every widget
\* at its default
Init ==
    \E f \in Focuses :
    \E seed \in [1..NumClients -> ClientDrawSet(f)] :
    \E clients \in cached_generate_demo_clients(EmptyCache, seed) :
    \E logs \in cached_generate_daily_logs(EmptyCache, f) :
    \E payouts \in cached_generate_payout_confirmations(EmptyCache, f) :
        /\ focus = f
        /\ seeded_draws = seed
        /\ session_state = SetAll(<<>>, clients, logs, payouts)
        /\ cache = [clients |-> {clients}, logs |-> {logs}, payouts |-> {payouts}]
        /\ widgets = DefaultWidgets(clients)
        /\ view = Pass(session_state, widgets, "none")
        /\ replaced = {}

\* a widget changed: the script runs again with the new values
Interact(w) ==
    /\ widgets' = w
    /\ session_state' = SessionAfterPass(session_state, w)
    /\ view' = Pass(session_state', w, "none")
    /\ UNCHANGED <<focus, seeded_draws, cache, replaced>>

\* lines 190-194
SetVerificationFilter ==
    \E v \in VerificationChoices(focus) \ {widgets.verification_filter} :
        Interact([widgets EXCEPT !.verification_filter = v])

\* lines 196-200
SetPayoutFilter ==
    \E v \in PayoutFilterChoices(focus) \ {widgets.payout_filter} :
        Interact([widgets EXCEPT !.payout_filter = v])

\* lines 202-208
SetBalanceRange ==
    \E v \in BalanceRangeChoices(focus, session_state.client_data) \ {widgets.balance_range} :
        Interact([widgets EXCEPT !.balance_range = v])

\* lines 212-216
SetDateRange ==
    \E v \in DateRangeChoices(focus) \ {widgets.date_range} :
        Interact([widgets EXCEPT !.date_range = v])

\* line 283
SetSearchTerm ==
    \E v \in SearchTermChoices(focus) \ {widgets.search_term} :
        Interact([widgets EXCEPT !.search_term = v])

\* lines 428-432
SetPayoutStatusFilter ==
    \E v \in PayoutStatusChoices(focus) \ {widgets.payout_status_filter} :
        Interact([widgets EXCEPT !.payout_status_filter = v])

\* lines 315-322: the Export Client Data button
ExportClientData ==
    /\ session_state' = SessionAfterPass(session_state, widgets)
    /\ view' = Pass(session_state', widgets, "export")
    /\ UNCHANGED <<focus, seeded_draws, cache, widgets, replaced>>

\* lines 504-505: the Generate Report button
GenerateReport ==
    /\ session_state' = SessionAfterPass(session_state, widgets)
    /\ view' = Pass(session_state', widgets, "report")
    /\ UNCHANGED <<focus, seeded_draws, cache, widgets, replaced>>

\* lines 434-436: the Refresh Payouts button: the run gets as far as the
\* button, replaces the journal with the generator's (cached) value, and reruns
RefreshPayouts ==
    \E payouts \in cached_generate_payout_confirmations(cache, focus) :
        /\ cache' = [cache EXCEPT !.payouts = {payouts}]
        /\ session_state' = SetPayouts(SessionAfterPass(session_state, widgets), payouts)
        /\ view' = Rerun(session_state', widgets)
        /\ replaced' = Missed(cache) \cap {"payouts"}
        /\ UNCHANGED <<focus, seeded_draws, widgets>>

\* the slider has no key: a changed max_value makes it a new widget, at its default
SliderAfter(w, old_df, new_df) ==
    IF SliderMax(new_df) = SliderMax(old_df) THEN w
    ELSE [w EXCEPT !.balance_range = DefaultBalanceRange(new_df)]

\* lines 498-502: the Refresh All Data button, at the end of a run
RefreshAllData ==
    \E clients \in cached_generate_demo_clients(cache, seeded_draws) :
    \E logs \in cached_generate_daily_logs(cache, focus) :
    \E payouts \in cached_generate_payout_confirmations(cache, focus) :
        /\ cache' = [clients |-> {clients}, logs |-> {logs}, payouts |-> {payouts}]
        /\ session_state' = SetAll(SessionAfterPass(session_state, widgets), clients, logs, payouts)
        /\ widgets' = SliderAfter(widgets, session_state.client_data, clients)
        /\ view' = Rerun(session_state', widgets')
        /\ replaced' = Missed(cache)
        /\ UNCHANGED <<focus, seeded_draws>>

\* the cache is emptied (Streamlit's "Clear cache"); no run follows
ClearCache ==
    /\ focus = "session"
    /\ cache # EmptyCache
    /\ cache' = EmptyCache
    /\ UNCHANGED <<focus, seeded_draws, session_state, widgets, view, replaced>>

Next ==
    \/ SetVerificationFilter
    \/ SetPayoutFilter
    \/ SetBalanceRange
    \/ SetDateRange
    \/ SetSearchTerm
    \/ SetPayoutStatusFilter
    \/ ExportClientData
    \/ GenerateReport
    \/ RefreshPayouts
    \/ RefreshAllData
    \/ ClearCache

Spec == Init /\ [][Next]_vars

\* ------------------------------------------------------------------ properties
RECURSIVE SumOver(_, _, _)
SumOver(df, col, S) ==
    IF S = {} THEN 0
    ELSE LET i == CHOOSE x \in S : TRUE
         IN  df[i][col] + SumOver(df, col, S \ {i})

RECURSIVE AmountOver(_, _)
AmountOver(df, S) ==
    IF S = {} THEN 0
    ELSE LET i == CHOOSE x \in S : TRUE
         IN  df[i].Amount.cents + AmountOver(df, S \ {i})

Registry == session_state.client_data
Ledger == session_state.daily_logs
Journal == session_state.payout_confirmations

PassesVerification(r) ==
    widgets.verification_filter = "All" \/ r.Verified = widgets.verification_filter

PassesPayoutStatus(r) ==
    widgets.payout_filter = "All" \/ r.Payout_Status = widgets.payout_filter

PassesBalance(r) ==
    /\ widgets.balance_range[1] * 100 <= r.Current_Balance
    /\ r.Current_Balance <= widgets.balance_range[2] * 100

PassesSearch(r) ==
    \/ widgets.search_term = <<>>
    \/ Substring(r.Name, widgets.search_term)
    \/ Substring(r.Email, widgets.search_term)

PassesSidebar(r) == PassesVerification(r) /\ PassesPayoutStatus(r) /\ PassesBalance(r)

PassesAllFour(r) == PassesSidebar(r) /\ PassesSearch(r)

PassesDates(r) ==
    /\ widgets.date_range[1] <= r.Date
    /\ r.Date <= widgets.date_range[2]

PassesJournalStatus(r) ==
    widgets.payout_status_filter = "All" \/ r.Status = widgets.payout_status_filter

SidebarClients == {i \in 1..Len(Registry) : PassesSidebar(Registry[i])}
SearchedClients == {i \in 1..Len(Registry) : PassesAllFour(Registry[i])}
DatedEntries ==
    IF Len(widgets.date_range) = 2
    THEN {i \in 1..Len(Ledger) : PassesDates(Ledger[i])}
    ELSE 1..Len(Ledger)
StatusPayouts == {i \in 1..Len(Journal) : PassesJournalStatus(Journal[i])}
AllPayouts == 1..Len(Journal)

\* the client metrics range over the registry rows S
ClientMetricsOver(S) ==
    /\ view.metrics.total_sent = SumOver(Registry, "Total_Sent", S)
    /\ view.metrics.total_balance = SumOver(Registry, "Current_Balance", S)
    /\ view.metrics.verified_count = Cardinality({i \in S : Registry[i].Verified = "Verified"})
    /\ view.metrics.total_clients = Cardinality(S)
    /\ view.metrics.verification_rate =
           IF S = {} THEN 0
           ELSE RoundDiv(1000 * Cardinality({i \in S : Registry[i].Verified = "Verified"}),
                         Cardinality(S))

\* the ledger metrics range over the ledger rows S
LedgerMetricsOver(S) ==
    /\ view.ledger.cash_app = SumOver(Ledger, "Cash_App", S)
    /\ view.ledger.zelle = SumOver(Ledger, "Zelle", S)
    /\ view.ledger.paypal = SumOver(Ledger, "PayPal", S)
    /\ view.ledger.bank_transfer = SumOver(Ledger, "Bank_Transfer", S)
    /\ view.ledger.total_period = SumOver(Ledger, "Daily_Total", S)
    /\ view.ledger.days_tracked = Cardinality(S)
    /\ S # {} => view.ledger.avg_daily =
                    [kind |-> "avg",
                     value |-> RoundDiv(SumOver(Ledger, "Daily_Total", S), Cardinality(S))]

\* the payout tallies range over the journal rows S
PayoutTalliesOver(S) ==
    /\ view.payout_summary.completed_amount =
           AmountOver(Journal, {i \in S : Journal[i].Status = "Completed"})
    /\ view.payout_summary.processing_count =
           Cardinality({i \in S : Journal[i].Status = "Processing"})
    /\ view.payout_summary.failed_count =
           Cardinality({i \in S : Journal[i].Status = "Failed"})
    /\ view.metrics.confirmed_payouts =
           Cardinality({i \in S : Journal[i].Status = "Completed"})

C2_EmptyViewFallbacks ==
    /\ view.metrics.total_clients = 0 =>
           /\ view.metrics.total_sent_delta.kind = "N/A"
           /\ view.metrics.total_balance_delta.kind = "N/A"
           /\ view.metrics.verification_rate = 0
    /\ view.logs_filtered = <<>> => view.ledger.avg_daily.kind # "nan"

\* C3 as stated: no two entries of the Payout Journal carry the same
\* confirmation identifier.
C3_ConfirmationIdIsKey ==
    \A i, j \in 1..Len(Journal) :
        i # j => Journal[i].Confirmation_ID # Journal[j].Confirmation_ID

\* C4 as stated: the client view displayed and exported is exactly the
\* clients satisfying the four predicates at once, the search predicate being
\* case-insensitive containment of the term in the name or the email.
C4_ViewIsConjunction ==
    /\ view.filtered_df = SelectSeq(Registry, PassesAllFour)
    /\ view.csv # <<>> => view.csv = to_csv(SelectSeq(Registry, PassesAllFour))

\* C5: with exactly two bounds the filtered ledger is exactly the entries
\* with start <= date <= end, in order; otherwise it is the whole ledger.
C5_LedgerFilter ==
    IF Len(widgets.date_range) = 2
    THEN view.logs_filtered = SelectSeq(Ledger, PassesDates)
    ELSE view.logs_filtered = Ledger

\* C5 witness: a two-bound range that keeps the entry dated on its end bound
\* and drops another entry.
C5_Witness ==
    /\ Len(widgets.date_range) = 2
    /\ view.logs_filtered # <<>>
    /\ Len(view.logs_filtered) < Len(Ledger)
    /\ \E i \in 1..Len(view.logs_filtered) :
           view.logs_filtered[i].Date = widgets.date_range[2]

\* C6: the datasets in session state change only in a step of Refresh
\* Payouts or Refresh All; a step that changes the Client Registry or the
\* Daily Ledger is a Refresh All step.
C6_DatasetsChangeOnlyByRefresh ==
    [][/\ session_state' # session_state => RefreshPayouts \/ RefreshAllData
       /\ (\/ session_state'.client_data # session_state.client_data
           \/ session_state'.daily_logs # session_state.daily_logs) => RefreshAllData
       /\ RefreshPayouts =>
              /\ session_state'.client_data = session_state.client_data
              /\ session_state'.daily_logs = session_state.daily_logs]_vars

\* C6 witness: Refresh Payouts generated a new journal, formatted for
\* display under a status filter, while the registry and the ledger stayed.
C6_Witness ==
    /\ replaced = {"payouts"}
    /\ cache.clients = {}
    /\ view.filtered_payouts # <<>>

\* C7: what is on display was rendered by one run of the script that bound
\* all three datasets as they are in session state: no output comes from an
\* older version of a dataset, and no two from different versions.
C7_OneVersionPerPass ==
    /\ view.client_df = Registry
    /\ view.logs_df = Ledger
    /\ view.payouts_df = Journal
    /\ \E button \in {"none", "export", "report"} :
           view = Pass(session_state, widgets, button)

\* C7 witness: Refresh All generated all three datasets anew and the run
\* after it is on display.
C7_Witness ==
    /\ replaced = {"clients", "logs", "payouts"}
    /\ view.logs_df = Ledger

\* C8: the ledger's dates are strictly increasing, entry 0's cumulative
\* total is its daily total, each later cumulative total is the previous one
\* plus the entry's daily total, and the cumulative total never decreases.
C8_CumulativeIsRunningSum ==
    /\ Len(Ledger) = NumDays
    /\ Ledger[1].Cumulative_Total = Ledger[1].Daily_Total
    /\ \A i \in 2..Len(Ledger) :
           /\ Ledger[i - 1].Date < Ledger[i].Date
           /\ Ledger[i].Cumulative_Total = Ledger[i - 1].Cumulative_Total + Ledger[i].Daily_Total
           /\ Ledger[i - 1].Cumulative_Total <= Ledger[i].Cumulative_Total

\* C8 witness: a ledger generated by a refresh, whose days differ in total.
C8_Witness ==
    /\ "logs" \in replaced
    /\ Ledger[1].Daily_Total # Ledger[Len(Ledger)].Daily_Total

\* C9: each filter, applied with the current selection to the view it
\* produced, gives that view again.
C9_FilterIdempotent ==
    /\ SearchFilter(ApplyFilters(view.filtered_df, widgets.verification_filter,
                                  widgets.payout_filter, widgets.balance_range),
                     widgets.search_term) = view.filtered_df
    /\ LogsFilter(view.logs_filtered, widgets.date_range) = view.logs_filtered
    /\ FilterPayouts(view.filtered_payouts, widgets.payout_status_filter) = view.filtered_payouts

\* C9 witness: a payout status filter that keeps some payouts and drops others.
C9_Witness ==
    /\ widgets.payout_status_filter # "All"
    /\ view.filtered_payouts # <<>>
    /\ Len(view.filtered_payouts) < Len(Journal)

\* C10 as stated: with every client control at its default the client view
\* is the whole registry and the hidden count is 0.
C10_DefaultsShowAll ==
    ( /\ widgets.verification_filter = "All"
      /\ widgets.payout_filter = "All"
      /\ widgets.balance_range = DefaultBalanceRange(Registry)
      /\ widgets.search_term = <<>> )
    => /\ view.filtered_df = Registry
       /\ view.hidden = 0

====
